---- MODULE Spec2Model ----
(***************************************************************************)
(* gmadet: astrometric_calib and crosscheck_with_catalogues of             *)
(* src/gmadet/gmadet.py as state machines.                                 *)
(*                                                                         *)
(* Python strings are sequences of one-character strings, so that slicing, *)
(* splitting and "%d" formatting are computed as the code computes them.   *)
(* An unbound Python local is the empty sequence <<>>, a bound one <<v>>.  *)
(* Angles are integers: residuals and accuracy in tenths of an arcsecond,  *)
(* pixel scales in units of 1e-4 degree.                                   *)
(***************************************************************************)
EXTENDS Integers, Sequences, FiniteSets, TLC

VARIABLES
    pc,            \* position in the function that is running
    exc,           \* name of the exception that ended the run, "" if none
    \* ---- arguments and files on disk
    filename,      \* path of the original image
    Nb_cuts,       \* <<rows, cols>>
    soft,          \* calibration method selector
    accuracy,      \* astrometric_calib(accuracy=)
    itermax,       \* astrometric_calib(itermax=)
    orig_header,   \* FITS header of the original image
    headers,       \* FITS header of every file of the image table
    magwcs,        \* rows of the .magwcs catalog of every file of the table
    radius,        \* crosscheck_with_catalogues(radius=), pixels
    catalogs,      \* crosscheck_with_catalogues(catalogs=)
    \* ---- locals of astrometric_calib
    index, ci, cj, ii, doffset, filelist, quadrant,
    image_table,   \* the table astrometric_calib returns
    scampLog,      \* residuals scamp returned for the file being calibrated
    \* ---- locals of crosscheck_with_catalogues
    nread,         \* files of the table already processed by the first loop
    idx,           \* local idx of lines 382-386
    pixScale,      \* local pixScale of lines 393-402
    folder, filename2,
    transients_out_list,
    detected_sources_tot,
    candidates,
    ncat,          \* catalogs of the sequence already taken by the for loop
    crossmatch,    \* idx column of the table run_xmatch returned
    xmatchLog,     \* the run_xmatch calls issued so far
    written,       \* files written by lines 472 and 474
    \* ---- sextractor and convert_xy_radec
    nsex,          \* files of the table sextractor has been run on
    sexLog,        \* the calls of sex and their exit codes
    sources,       \* the _SourcesDet.cat of every file: <<>> when there is
                   \* none, <<rows>> when there is one
    nconv,         \* files of the table convert_xy_radec has processed
    magwcsWritten  \* files whose .magwcs was written by line 339

calVars   == <<index, ci, cj, ii, doffset, filelist, quadrant, scampLog>>
inVars    == <<filename, Nb_cuts, soft, accuracy, itermax, orig_header,
               headers, magwcs, radius, catalogs>>
crossVars == <<nread, idx, pixScale, folder, filename2, transients_out_list,
               detected_sources_tot, candidates, ncat, crossmatch, xmatchLog,
               written>>
pipeVars  == <<nsex, sexLog, sources, nconv, magwcsWritten>>
vars      == <<pc, exc, image_table, inVars, calVars, crossVars, pipeVars>>

-----------------------------------------------------------------------------
(* Bounds of the model *)
MaxCuts == 2        \* rows and columns of the grid range over 1..MaxCuts
MaxIter == 3        \* itermax ranges over 0..MaxIter
MaxDet  == 3        \* detections in all .magwcs files together
MaxDup  == 2        \* catalog entries matched to one detection
MaxCat  == 2        \* catalogs in the configured sequence

-----------------------------------------------------------------------------
(* Python string operations *)

DigitChars == <<"0", "1", "2", "3", "4", "5", "6", "7", "8", "9">>

\* "%d" % n for n >= 0
RECURSIVE IntToStr(_)
IntToStr(n) ==
    IF n < 10 THEN <<DigitChars[n + 1]>>
    ELSE IntToStr(n \div 10) \o <<DigitChars[(n % 10) + 1]>>

\* int(s) for a string of decimal digits
RECURSIVE StrToInt(_)
StrToInt(s) ==
    LET d == CHOOSE k \in 0..9 : DigitChars[k + 1] = s[Len(s)]
    IN  IF Len(s) = 1 THEN d ELSE 10 * StrToInt(SubSeq(s, 1, Len(s) - 1)) + d

\* s.split(ch)
RECURSIVE Split(_, _)
Split(s, ch) ==
    IF \A k \in 1..Len(s) : s[k] # ch THEN <<s>>
    ELSE LET p == CHOOSE k \in 1..Len(s) :
                     s[k] = ch /\ \A m \in 1..(k - 1) : s[m] # ch
         IN  <<SubSeq(s, 1, p - 1)>> \o Split(SubSeq(s, p + 1, Len(s)), ch)

\* os.path.split(s): <<head, tail>> around the last "/"
PathSplit(s) ==
    IF \A k \in 1..Len(s) : s[k] # "/" THEN << <<>>, s >>
    ELSE LET p == CHOOSE k \in 1..Len(s) :
                     s[k] = "/" /\ \A m \in (k + 1)..Len(s) : s[m] # "/"
         IN  << SubSeq(s, 1, p - 1), SubSeq(s, p + 1, Len(s)) >>

\* folder = path + '/' if path else ''
Folder(name) ==
    LET path == PathSplit(name)[1]
    IN  IF path # <<>> THEN path \o <<"/">> ELSE <<>>

\* filename_ext.split('.')[0]
Filename2(name) == Split(PathSplit(name)[2], ".")[1]

\* extension = ''; for ext in filename_ext.split('.')[1:]: extension += '.' + ext
RECURSIVE ExtJoin(_, _)
ExtJoin(parts, k) ==
    IF k > Len(parts) THEN <<>>
    ELSE <<".">> \o parts[k] \o ExtJoin(parts, k + 1)

Extension(name) == ExtJoin(Split(PathSplit(name)[2], "."), 2)

\* s[:-n] for n >= 1
DropLast(s, n) == IF n >= Len(s) THEN <<>> ELSE SubSeq(s, 1, Len(s) - n)

-----------------------------------------------------------------------------
(* astrometric_calib *)

outputDir == <<"r", "/">>
NoneLabel == <<"N", "o", "n", "e">>
InitialOffset == 100            \* doffset = 10 arcseconds

Softs      == {"No", "scamp", "astrometrynet"}
Grids      == (1..MaxCuts) \X (1..MaxCuts)
Accuracies == {6, 120}          \* 0.6 (the default) and 12 arcseconds
Residuals  == {3, 6, 9}         \* what scamp may report

resultDir(name) == Folder(name) \o outputDir

\* resultDir + filename2 + extension
WholeFile(name) == resultDir(name) \o Filename2(name) \o Extension(name)

\* resultDir + filename2 + "_Q%d" % (index) + extension
QuadFile(name, n) ==
    resultDir(name) \o Filename2(name) \o <<"_", "Q">> \o IntToStr(n)
        \o Extension(name)

\* 'Q%d_%d_%d' % (index,i,j)
QuadLabel(n, i, j) ==
    <<"Q">> \o IntToStr(n) \o <<"_">> \o IntToStr(i) \o <<"_">> \o IntToStr(j)

Cut == Nb_cuts[1] > 1 \/ Nb_cuts[2] > 1

Abs(x) == IF x < 0 THEN -x ELSE x

\* the chain tried in the order CD1_1, _DELT1, CDELT1
LookupScaleReversed(header, prev) ==
    IF "CD1_1" \in DOMAIN header THEN <<Abs(header["CD1_1"])>>
    ELSE IF "_DELT1" \in DOMAIN header THEN <<Abs(header["_DELT1"])>>
    ELSE IF "CDELT1" \in DOMAIN header THEN <<Abs(header["CDELT1"])>>
    ELSE prev

\* the try/except chain over CDELT1, _DELT1, CD1_1: <<abs(value)>> of the
\* first key present, or prev (the local as it was) when none is
LookupScale(header, prev) ==
    IF "CDELT1" \in DOMAIN header THEN <<Abs(header["CDELT1"])>>
    ELSE IF "_DELT1" \in DOMAIN header THEN <<Abs(header["_DELT1"])>>
    ELSE IF "CD1_1" \in DOMAIN header THEN <<Abs(header["CD1_1"])>>
    ELSE prev

\* lines 138-140: no calibration
NoAstrometry ==
    /\ pc = "calib"
    /\ soft \notin {"scamp", "astrometrynet"}
    /\ filelist' = Append(filelist, WholeFile(filename))
    /\ quadrant' = Append(quadrant, NoneLabel)
    /\ pc' = "return"
    /\ UNCHANGED <<exc, image_table, inVars, pipeVars, crossVars, index, ci, cj, ii,
                   doffset, scampLog>>

\* lines 75-79 and 95-97: enter the scamp branch
ScampBegin ==
    /\ pc = "calib"
    /\ soft = "scamp"
    /\ IF Cut
       THEN /\ index' = 0
            /\ ci' = 0
            /\ cj' = 0
            /\ pc' = "cell"
            /\ UNCHANGED <<filelist, ii, doffset>>
       ELSE /\ filelist' = Append(filelist, WholeFile(filename))
            /\ ii' = 0
            /\ doffset' = InitialOffset
            /\ pc' = "while"
            /\ UNCHANGED <<index, ci, cj>>
    /\ UNCHANGED <<exc, image_table, inVars, pipeVars, crossVars, quadrant, scampLog>>

\* lines 82-86: next cell of the grid
ScampCell ==
    /\ pc = "cell"
    /\ index' = index + 1
    /\ filelist' = Append(filelist, QuadFile(filename, index + 1))
    /\ ii' = 0
    /\ doffset' = InitialOffset
    /\ scampLog' = <<>>
    /\ pc' = "while"
    /\ UNCHANGED <<exc, image_table, inVars, pipeVars, crossVars, ci, cj, quadrant>>

\* lines 87-91 and 98-102: one pass of the while loop, one call of scamp
ScampRun ==
    /\ pc = "while"
    /\ doffset >= accuracy /\ ii <= itermax
    /\ ii' = ii + 1
    /\ \E r \in Residuals :
          /\ doffset' = r
          /\ scampLog' = Append(scampLog, r)
    /\ UNCHANGED <<pc, exc, image_table, inVars, pipeVars, crossVars, index, ci, cj,
                   filelist, quadrant>>

\* lines 93 and 104: the while loop is left, the label is appended, and the
\* for loops of lines 80-81 advance
ScampDone ==
    /\ pc = "while"
    /\ ~(doffset >= accuracy /\ ii <= itermax)
    /\ IF Cut
       THEN /\ quadrant' = Append(quadrant, QuadLabel(index, ci, cj))
            /\ IF cj + 1 < Nb_cuts[2]
               THEN cj' = cj + 1 /\ ci' = ci /\ pc' = "cell"
               ELSE IF ci + 1 < Nb_cuts[1]
                    THEN cj' = 0 /\ ci' = ci + 1 /\ pc' = "cell"
                    ELSE UNCHANGED <<ci, cj>> /\ pc' = "return"
       ELSE /\ quadrant' = Append(quadrant, NoneLabel)
            /\ pc' = "return"
            /\ UNCHANGED <<ci, cj>>
    /\ UNCHANGED <<exc, image_table, inVars, pipeVars, crossVars, index, ii, doffset,
                   filelist, scampLog>>

\* lines 107-137: the astrometrynet branch. pixScale stays unbound when the
\* header has none of the keys (line 122 then raises NameError); line 132
\* calls the undefined name asrometrynet for the first cell of a cut image.
Astrometrynet ==
    /\ pc = "calib"
    /\ soft = "astrometrynet"
    /\ IF LookupScale(orig_header, <<>>) = <<>>
       THEN /\ exc' = "NameError"
            /\ pc' = "error"
            /\ UNCHANGED <<index, filelist, quadrant>>
       ELSE IF Cut
            THEN /\ index' = 1
                 /\ filelist' = Append(filelist, QuadFile(filename, 1))
                 /\ exc' = "NameError"
                 /\ pc' = "error"
                 /\ UNCHANGED quadrant
            ELSE /\ filelist' = Append(filelist, WholeFile(filename))
                 /\ quadrant' = Append(quadrant, NoneLabel)
                 /\ pc' = "return"
                 /\ UNCHANGED <<exc, index>>
    /\ UNCHANGED <<image_table, inVars, pipeVars, crossVars, ci, cj, ii, doffset,
                   scampLog>>

\* lines 142-143
Return ==
    /\ pc = "return"
    /\ image_table' = [k \in 1..Len(filelist) |->
                          [filenames |-> filelist[k], quadrant |-> quadrant[k]]]
    /\ pc' = "returned"
    /\ UNCHANGED <<exc, inVars, pipeVars, calVars, crossVars>>

\* the table astrometric_calib returns for a file, a grid and a method that
\* reaches line 143
ImageTableOf(name, cuts, method) ==
    IF method = "scamp" /\ (cuts[1] > 1 \/ cuts[2] > 1)
    THEN [n \in 1..(cuts[1] * cuts[2]) |->
             [filenames |-> QuadFile(name, n),
              quadrant  |-> QuadLabel(n, (n - 1) \div cuts[2], (n - 1) % cuts[2])]]
    ELSE << [filenames |-> WholeFile(name), quadrant |-> NoneLabel] >>

-----------------------------------------------------------------------------
(* crosscheck_with_catalogues *)

DefaultCatalogs ==
    << <<"I", "/", "3", "4", "5">>, <<"I", "I", "/", "3", "4", "9">>,
       <<"I", "/", "2", "7", "1">>, <<"I", "/", "2", "8", "4">> >>

\* lines 378-386: the value of the local idx after the if/elif, <<>> if it
\* is still unbound
StripCount(f2, cuts, prev) ==
    IF cuts = <<1, 1>> THEN prev
    ELSE LET split_file == Split(f2, "_")
             last == split_file[Len(split_file)]
         IN  IF Len(last) = 2 THEN <<3>>
             ELSE IF Len(last) = 3 THEN <<4>>
             ELSE prev

\* lines 378-386: original_name, given a bound idx
OriginalName(name, cuts, n) ==
    IF cuts = <<1, 1>> THEN Folder(name) \o Filename2(name)
    ELSE Folder(name) \o DropLast(Filename2(name), n)

\* lines 414-420: <<index_i, index_j>>, or <<>> when the label does not
\* unpack into three parts
QuadIndex(label, cuts) ==
    IF cuts = <<1, 1>> THEN <<0, 0>>
    ELSE LET parts == Split(label, "_")
         IN  IF Len(parts) # 3 THEN <<>>
             ELSE <<StrToInt(parts[2]), StrToInt(parts[3])>>

\* lines 410-413 and 421, 423: what is added to Xpos and to Ypos
XOffset(header2, cuts, index_j) == (header2["NAXIS2"] \div cuts[2]) * index_j
YOffset(header2, cuts, index_i) == (header2["NAXIS1"] \div cuts[1]) * index_i

\* lines 421-422: Xpos_quad is copied from Xpos after the offset was added
XposQuad(x, xglobal) == xglobal
\* lines 423-424
YposQuad(y, yglobal) == yglobal

\* lines 405-424: the rows of file i of the table, as they are stacked
FileRows(i, label, name, header2, cuts, ij) ==
    [n \in 1..Len(magwcs[i]) |->
        LET x == magwcs[i][n].Xpos
            y == magwcs[i][n].Ypos
            xg == x + XOffset(header2, cuts, ij[2])
            yg == y + YOffset(header2, cuts, ij[1])
        IN  [Xpos |-> xg, Xpos_quad |-> XposQuad(x, xg),
             Ypos |-> yg, Ypos_quad |-> YposQuad(y, yg),
             quadrant |-> label, filenames |-> name, row |-> <<i, n>>, idx |-> -1]]

\* the files fits.getheader can open in the result folder: the files of the
\* image table and the original image
Readable(name) ==
    \/ name = WholeFile(filename)
    \/ \E k \in 1..Len(image_table) : image_table[k].filenames = name

\* lines 363-429: one pass of the loop over the files of the image table
ReadFile ==
    /\ pc = "read"
    /\ LET i      == nread + 1
           name   == image_table[i].filenames
           label  == image_table[i].quadrant
           f2     == Filename2(name)
           strip  == StripCount(f2, Nb_cuts, idx)
           oname  == OriginalName(name, Nb_cuts, strip[1])
           ij     == QuadIndex(label, Nb_cuts)
       IN  IF Nb_cuts # <<1, 1>> /\ strip = <<>>
           THEN /\ exc' = "UnboundLocalError"
                /\ pc' = "error"
                /\ UNCHANGED <<nread, idx, pixScale, folder, filename2,
                               transients_out_list, detected_sources_tot>>
           ELSE IF ~Readable(oname \o Extension(name))
           THEN /\ exc' = "IOError"
                /\ pc' = "error"
                /\ idx' = strip
                /\ pixScale' = LookupScale(headers[i], pixScale)
                /\ transients_out_list' =
                       Append(transients_out_list, oname \o <<".", "o", "c">>)
                /\ UNCHANGED <<nread, folder, filename2, detected_sources_tot>>
           ELSE IF ij = <<>>
           THEN /\ exc' = "ValueError"
                /\ pc' = "error"
                /\ idx' = strip
                /\ pixScale' = LookupScale(headers[i], pixScale)
                /\ transients_out_list' =
                       Append(transients_out_list, oname \o <<".", "o", "c">>)
                /\ UNCHANGED <<nread, folder, filename2, detected_sources_tot>>
           ELSE /\ idx' = strip
                /\ folder' = Folder(name)
                /\ filename2' = f2
                /\ transients_out_list' =
                       Append(transients_out_list, oname \o <<".", "o", "c">>)
                /\ pixScale' = LookupScale(headers[i], pixScale)
                /\ detected_sources_tot' = detected_sources_tot \o
                       FileRows(i, label, name, orig_header, Nb_cuts, ij)
                /\ nread' = i
                /\ pc' = IF i = Len(image_table) THEN "prepare" ELSE "read"
                /\ exc' = exc
    /\ UNCHANGED <<image_table, inVars, pipeVars, calVars, candidates, ncat, crossmatch,
                   xmatchLog, written>>

\* np.arange(1, len(table) + 1) instead of np.arange(len(table))
ReindexFromOne(table) == [k \in 1..Len(table) |-> [table[k] EXCEPT !.idx = k]]

\* lines 434 and 464: table['idx'] = np.arange(len(table))
Reindex(table) == [k \in 1..Len(table) |-> [table[k] EXCEPT !.idx = k - 1]]

\* radius*pixScale*3600
Tolerance(r, scale) == r * scale * 3600

\* lines 430-440: index the full table, copy it to candidates, print the
\* tolerance (an unbound pixScale raises here)
Prepare ==
    /\ pc = "prepare"
    /\ detected_sources_tot' = Reindex(detected_sources_tot)
    /\ candidates' = Reindex(detected_sources_tot)
    /\ IF pixScale = <<>>
       THEN exc' = "UnboundLocalError" /\ pc' = "error"
       ELSE exc' = exc /\ pc' = IF Len(catalogs) = 0 THEN "write" ELSE "loop"
    /\ UNCHANGED <<image_table, inVars, pipeVars, calVars, nread, idx, pixScale, folder,
                   filename2, transients_out_list, ncat, crossmatch, xmatchLog,
                   written>>

\* what run_xmatch may return for a table: for every idx of the table the
\* number of catalog entries matched to it
Replies(table) == [{table[k].idx : k \in 1..Len(table)} -> 0..MaxDup]

\* lines 441-444: the for loop takes the next catalog and queries it
XMatch ==
    /\ pc = "loop"
    /\ ncat' = ncat + 1
    /\ \E reply \in Replies(candidates) :
          /\ crossmatch' = reply
          /\ xmatchLog' = Append(xmatchLog,
                 [catalog |-> catalogs[ncat + 1],
                  table   |-> candidates,
                  radius  |-> Tolerance(radius, pixScale[1]),
                  reply   |-> reply])
    /\ pc' = "filter"
    /\ UNCHANGED <<exc, image_table, inVars, pipeVars, calVars, nread, idx, pixScale,
                   folder, filename2, transients_out_list,
                   detected_sources_tot, candidates, written>>

\* the idx that occur exactly once in crossmatch['idx'] (duplicates dropped
\* altogether instead of collapsed)
ReferencedOnce(cm) == {k \in DOMAIN cm : cm[k] = 1}

\* line 450: np.unique(crossmatch['idx'])
ReferencedStarIdx(cm) == {k \in DOMAIN cm : cm[k] > 0}

\* flag[referenced_star_idx - 1] = 1: the idx taken as counted from 1
FlagShifted(n, referenced_star_idx) ==
    [p \in 0..(n - 1) |-> IF p + 1 \in referenced_star_idx THEN 1 ELSE 0]

\* lines 448 and 456: flag = zeros(n); flag[referenced_star_idx] = 1
Flag(n, referenced_star_idx) ==
    [p \in 0..(n - 1) |-> IF p \in referenced_star_idx THEN 1 ELSE 0]

\* candidates[flag == 1]: the mask of line 461 inverted
RECURSIVE SelectKnownFrom(_, _, _)
SelectKnownFrom(table, flag, k) ==
    IF k > Len(table) THEN <<>>
    ELSE (IF flag[k - 1] = 1 THEN <<table[k]>> ELSE <<>>)
             \o SelectKnownFrom(table, flag, k + 1)
SelectKnown(table, flag) == SelectKnownFrom(table, flag, 1)

\* line 461: candidates[flag == 0], the rows from position k on
RECURSIVE SelectFrom(_, _, _)
SelectFrom(table, flag, k) ==
    IF k > Len(table) THEN <<>>
    ELSE (IF flag[k - 1] = 0 THEN <<table[k]>> ELSE <<>>)
             \o SelectFrom(table, flag, k + 1)
Select(table, flag) == SelectFrom(table, flag, 1)

\* lines 448-467: the matched rows are dropped, the rest is indexed anew,
\* and the loop ends when nothing is left or the sequence is exhausted
Filter ==
    /\ pc = "filter"
    /\ LET n   == Len(candidates)
           ref == ReferencedStarIdx(crossmatch)
       IN  IF \E k \in ref : k >= n
           THEN /\ exc' = "IndexError"
                /\ pc' = "error"
                /\ UNCHANGED candidates
           ELSE /\ candidates' = Reindex(Select(candidates, Flag(n, ref)))
                /\ exc' = exc
                /\ pc' = IF Len(candidates') = 0 \/ ncat = Len(catalogs)
                         THEN "write" ELSE "loop"
    /\ UNCHANGED <<image_table, inVars, pipeVars, calVars, nread, idx, pixScale, folder,
                   filename2, transients_out_list, detected_sources_tot, ncat,
                   crossmatch, xmatchLog, written>>

\* order of the characters that occur in file names
CharOrder ==
    <<".", "/", "0", "1", "2", "3", "4", "5", "6", "7", "8", "9", "Q", "_",
      "a", "b", "c", "d", "f", "i", "m", "o", "r">>
Ord(ch) == CHOOSE k \in 1..Len(CharOrder) : CharOrder[k] = ch

\* a <= b for Python strings
StrLeq(a, b) ==
    \/ /\ Len(a) <= Len(b)
       /\ \A k \in 1..Len(a) : a[k] = b[k]
    \/ \E k \in 1..Len(a) :
          /\ k <= Len(b)
          /\ \A m \in 1..(k - 1) : a[m] = b[m]
          /\ Ord(a[k]) < Ord(b[k])

\* line 470: np.unique(names)[0]
FirstUnique(names) ==
    CHOOSE s \in {names[k] : k \in 1..Len(names)} :
        \A k \in 1..Len(names) : StrLeq(s, names[k])

\* line 474: folder + filename2 + '_oc_RADEC'
RadecName(fld, f2) == fld \o f2 \o <<"_", "o", "c", "_", "R", "A", "D", "E", "C">>

\* lines 469-474
WriteOutput ==
    /\ pc = "write"
    /\ written' =
         << [name |-> FirstUnique(transients_out_list), rows |-> candidates,
             cols |-> "all"],
            [name |-> RadecName(folder, filename2), rows |-> candidates,
             cols |-> "radec"] >>
    /\ pc' = "done"
    /\ UNCHANGED <<exc, image_table, inVars, pipeVars, calVars, nread, idx, pixScale,
                   folder, filename2, transients_out_list,
                   detected_sources_tot, candidates, ncat, crossmatch,
                   xmatchLog>>

-----------------------------------------------------------------------------
(* Inputs *)

Img1 == <<"i", "m", ".", "f">>
Img2 == <<"d", "/", "a", "_", "b", ".", "f">>
Filenames == {Img1, Img2}

NoKeys  == [k \in {} |-> 0]
Naxis(w, h) == [k \in {"NAXIS1", "NAXIS2"} |-> IF k = "NAXIS1" THEN w ELSE h]
ScaleHeaders ==
    { NoKeys,
      [k \in {"CDELT1"} |-> -2],
      [k \in {"_DELT1", "CD1_1"} |-> IF k = "_DELT1" THEN 3 ELSE -5],
      [k \in {"CD1_1"} |-> -5] }

\* the rows of the .magwcs files: dets[k] is the file of the k-th detection
NonDecreasing(nf, m) ==
    {s \in [1..m -> 1..nf] : \A k \in 1..(m - 1) : s[k] <= s[k + 1]}
LocalPositions == {<<1, 2>>, <<3, 1>>}
MagwcsOf(nf, dets, pos) ==
    [f \in 1..nf |->
        [n \in 1..Cardinality({k \in DOMAIN dets : dets[k] = f}) |->
            [Xpos |-> pos[1], Ypos |-> pos[2]]]]

CrossIdle ==
    /\ nread = 0 /\ idx = <<>> /\ pixScale = <<>>
    /\ folder = <<>> /\ filename2 = <<>>
    /\ transients_out_list = <<>>
    /\ detected_sources_tot = <<>> /\ candidates = <<>>
    /\ ncat = 0 /\ crossmatch = <<>> /\ xmatchLog = <<>> /\ written = <<>>

PipeIdle ==
    /\ nsex = 0 /\ sexLog = <<>> /\ sources = <<>>
    /\ nconv = 0 /\ magwcsWritten = {}

CalIdle ==
    /\ index = 0 /\ ci = 0 /\ cj = 0 /\ ii = 0 /\ doffset = 0
    /\ filelist = <<>> /\ quadrant = <<>> /\ scampLog = <<>>

InitCalib ==
    /\ pc = "calib" /\ exc = ""
    /\ filename \in Filenames
    /\ Nb_cuts \in Grids
    /\ soft \in Softs
    /\ accuracy \in Accuracies
    /\ itermax \in 0..MaxIter
    /\ orig_header \in {h @@ Naxis(4, 4) : h \in ScaleHeaders}
    /\ headers = <<>> /\ magwcs = <<>> /\ radius = 0 /\ catalogs = <<>>
    /\ image_table = <<>>
    /\ CalIdle
    /\ CrossIdle
    /\ PipeIdle

GoodHeader   == [k \in {"CDELT1"} |-> -2]
FilterGrids  == {<<1, 1>>, <<1, 2>>}
ImageSizes   == {<<4, 4>>, <<6, 4>>}
DefaultAccuracy == 6
DefaultItermax  == 3

CrossStart ==
    /\ pc = "read" /\ exc = ""
    /\ accuracy = DefaultAccuracy /\ itermax = DefaultItermax
    /\ image_table = ImageTableOf(filename, Nb_cuts, soft)
    /\ CalIdle
    /\ CrossIdle
    /\ PipeIdle

\* the catalog loop in full: one image, few files, up to MaxDet detections,
\* up to MaxCat catalogs
Init ==
    /\ filename = Img1
    /\ Nb_cuts \in FilterGrids
    /\ soft = "scamp"
    /\ orig_header = Naxis(4, 4)
    /\ headers = [f \in 1..(Nb_cuts[1] * Nb_cuts[2]) |-> GoodHeader]
    /\ \E m \in 0..MaxDet :
          \E dets \in NonDecreasing(Nb_cuts[1] * Nb_cuts[2], m) :
             magwcs = MagwcsOf(Nb_cuts[1] * Nb_cuts[2], dets, <<1, 2>>)
    /\ radius = 3
    /\ \E n \in 0..MaxCat : catalogs = SubSeq(DefaultCatalogs, 1, n)
    /\ CrossStart

\* the files in full: every grid, image size, file name and header (the
\* first or the last file may have another header than the rest), at most
\* one detection, one catalog or more
InitFiles ==
    /\ filename \in Filenames
    /\ Nb_cuts \in Grids
    /\ soft \in Softs
    /\ ~(soft = "astrometrynet" /\ Cut)
    /\ \E wh \in ImageSizes : orig_header = Naxis(wh[1], wh[2])
    /\ LET nf == Len(ImageTableOf(filename, Nb_cuts, soft))
       IN  /\ \E h0 \in ScaleHeaders, h1 \in ScaleHeaders, odd \in {1, nf} :
                headers = [f \in 1..nf |-> IF f = odd THEN h1 ELSE h0]
           /\ \E m \in 0..1 :
                \E dets \in NonDecreasing(nf, m), pos \in LocalPositions :
                   magwcs = MagwcsOf(nf, dets, pos)
    /\ radius = 3
    /\ \E n \in 1..MaxCat : catalogs = SubSeq(DefaultCatalogs, 1, n)
    /\ CrossStart

Next ==
    \/ ReadFile
    \/ Prepare
    \/ XMatch
    \/ Filter
    \/ WriteOutput

Spec      == Init /\ [][Next]_vars
SpecFiles == InitFiles /\ [][Next]_vars

NextCalib ==
    \/ NoAstrometry
    \/ ScampBegin
    \/ ScampCell
    \/ ScampRun
    \/ ScampDone
    \/ Astrometrynet
    \/ Return

SpecCalib == InitCalib /\ [][NextCalib]_vars

CalibAgrees ==
    pc = "returned" => image_table = ImageTableOf(filename, Nb_cuts, soft)

\* ---------------------------------------------------------------------
\* main, lines 631-635: sextractor, convert_xy_radec and then
\* crosscheck_with_catalogues on the files of the image table
\* ---------------------------------------------------------------------

\* the catalog sex writes for a file with n detections
SourcesDet(n) == [k \in 1..n |-> [X_IMAGE |-> 1, Y_IMAGE |-> 2]]

\* what a call of sex can do: exit with 0 and a catalog of up to budget
\* rows, or exit with another code and no catalog
SexOutcomes(budget) ==
    {[code |-> 0, cat |-> <<SourcesDet(n)>>] : n \in 0..budget}
        \cup {[code |-> 1, cat |-> <<>>]}

RECURSIVE RowsOf(_)
RowsOf(srcs) ==
    IF srcs = <<>> THEN 0
    ELSE Len(srcs[1]) + RowsOf(Tail(srcs))

\* lines 149-168: one pass of the loop of sextractor; subprocess.call
\* returns the exit code of sex and the code is dropped
Sextractor ==
    /\ pc = "sex"
    /\ LET i    == nsex + 1
           name == image_table[i].filenames
           used == RowsOf(SelectSeq(sources, LAMBDA c : c # <<>>))
       IN  \E out \in SexOutcomes(MaxDet - used) :
              /\ sexLog' = Append(sexLog, [file |-> name, code |-> out.code])
              /\ sources' = [sources EXCEPT ![i] = out.cat]
              /\ nsex' = i
              /\ pc' = IF i = Len(image_table) THEN "convert" ELSE "sex"
    /\ UNCHANGED <<exc, image_table, inVars, calVars, crossVars, nconv,
                   magwcsWritten>>

\* lines 333-335: wcs.WCS(header).wcs_pix2world(x, y, 1); a header without
\* the keywords of a WCS gives the default WCS, where the world coordinates
\* are the pixel coordinates, and no error
Pix2World(header, x, y) ==
    IF "CRVAL1" \in DOMAIN header
    THEN <<header["CRVAL1"] + (x - header["CRPIX1"]),
           header["CRVAL2"] + (y - header["CRPIX2"])>>
    ELSE <<x, y>>

\* lines 304-341, soft == 'sextractor': one pass of the loop of
\* convert_xy_radec; ascii.read raises when the catalog is not there
ConvertXyRadec ==
    /\ pc = "convert"
    /\ LET i == nconv + 1
       IN  IF sources[i] = <<>>
           THEN /\ exc' = "IOError"
                /\ pc' = "error"
                /\ UNCHANGED <<magwcs, nconv, magwcsWritten>>
           ELSE /\ magwcs' = [magwcs EXCEPT ![i] =
                      [n \in 1..Len(sources[i][1]) |->
                          LET src == sources[i][1][n]
                              rd  == Pix2World(headers[i], src.X_IMAGE, src.Y_IMAGE)
                          IN  [Xpos |-> src.X_IMAGE, Ypos |-> src.Y_IMAGE,
                               RA |-> rd[1], DEC |-> rd[2]]]]
                /\ magwcsWritten' = magwcsWritten \cup {i}
                /\ nconv' = i
                /\ exc' = exc
                /\ pc' = IF i = Len(image_table) THEN "read" ELSE "convert"
    /\ UNCHANGED <<image_table, filename, Nb_cuts, soft, accuracy, itermax,
                   orig_header, headers, radius, catalogs, calVars, crossVars,
                   nsex, sexLog, sources>>

WcsHeader ==
    [k \in {"CDELT1", "CRVAL1", "CRVAL2", "CRPIX1", "CRPIX2"} |->
        CASE k = "CDELT1" -> -2
          [] k = "CRVAL1" -> 10
          [] k = "CRVAL2" -> 20
          [] OTHER        -> 1]

\* the pipeline in full: every grid, files calibrated or not, a fresh
\* directory, one catalog
InitPipe ==
    /\ pc = "sex" /\ exc = ""
    /\ filename = Img1
    /\ Nb_cuts \in Grids
    /\ soft = "scamp"
    /\ accuracy = DefaultAccuracy /\ itermax = DefaultItermax
    /\ orig_header = Naxis(4, 4)
    /\ image_table = ImageTableOf(filename, Nb_cuts, soft)
    /\ headers \in [1..(Nb_cuts[1] * Nb_cuts[2]) -> {WcsHeader, GoodHeader}]
    /\ magwcs = [f \in 1..(Nb_cuts[1] * Nb_cuts[2]) |-> <<>>]
    /\ radius = 3
    /\ catalogs = SubSeq(DefaultCatalogs, 1, 1)
    /\ CalIdle
    /\ CrossIdle
    /\ nsex = 0 /\ sexLog = <<>> /\ nconv = 0 /\ magwcsWritten = {}
    /\ sources = [f \in 1..(Nb_cuts[1] * Nb_cuts[2]) |-> <<>>]

NextPipe ==
    \/ Sextractor
    \/ ConvertXyRadec
    \/ ReadFile
    \/ Prepare
    \/ XMatch
    \/ Filter
    \/ WriteOutput

SpecPipe == InitPipe /\ [][NextPipe]_vars

-----------------------------------------------------------------------------
(* Properties of crosscheck_with_catalogues *)

\* the Detections of a table, whatever idx they carry
Detections(table) == {[table[k] EXCEPT !.idx = 0] : k \in 1..Len(table)}
NoMatch(reply)    == \A k \in DOMAIN reply : reply[k] = 0
Dense(table)      == \A k \in 1..Len(table) : table[k].idx = k - 1

\* C1: every filtering pass leaves a subset of the Candidate Set it started
\* from, never a larger one, and one of the same size when the catalog
\* returned no match.
C1_PassShrinks ==
    [][pc = "filter" =>
          /\ Detections(candidates') \subseteq Detections(candidates)
          /\ Len(candidates') <= Len(candidates)
          /\ NoMatch(crossmatch) => Len(candidates') = Len(candidates)]_vars

\* a pass without a match kept three candidates, a later pass dropped some
C1_Witness ==
    /\ pc = "write"
    /\ Len(xmatchLog) = 2
    /\ Len(xmatchLog[1].table) = 3
    /\ NoMatch(xmatchLog[1].reply)
    /\ Len(xmatchLog[2].table) = 3
    /\ Len(candidates) \in {1, 2}

\* C2: whenever a catalog query is issued and at the end of every filtering
\* pass the idx values of the Candidate Set are 0..n-1 in row order.
C2_DenseIdx ==
    /\ \A q \in 1..Len(xmatchLog) : Dense(xmatchLog[q].table)
    /\ pc \in {"loop", "filter", "write", "done"} => Dense(candidates)

\* the first catalog matched the first of three rows, and the second query
\* went out with the two survivors
C2_Witness ==
    /\ Len(xmatchLog) = 2
    /\ Len(xmatchLog[1].table) = 3
    /\ xmatchLog[1].reply[0] > 0
    /\ Len(xmatchLog[2].table) = 2
    /\ xmatchLog[2].table[1].row # xmatchLog[1].table[1].row

\* C3: every Detection of the final candidate file was queried against every
\* catalog of the sequence and matched by none.
C3_OutputUnmatched ==
    pc = "done" =>
       \A k \in 1..Len(written[1].rows) : \A c \in 1..Len(catalogs) :
          /\ c <= Len(xmatchLog)
          /\ xmatchLog[c].catalog = catalogs[c]
          /\ \E q \in 1..Len(xmatchLog[c].table) :
                /\ xmatchLog[c].table[q].row = written[1].rows[k].row
                /\ xmatchLog[c].reply[xmatchLog[c].table[q].idx] = 0

\* two catalogs both matched something and a candidate is written
C3_Witness ==
    /\ pc = "done"
    /\ Len(catalogs) = 2
    /\ Len(xmatchLog) = 2
    /\ ~NoMatch(xmatchLog[1].reply)
    /\ ~NoMatch(xmatchLog[2].reply)
    /\ Len(written[1].rows) >= 1

\* C4: no catalog query is issued with an empty Candidate Set.
C4_NoQueryOnEmpty ==
    \A q \in 1..Len(xmatchLog) : Len(xmatchLog[q].table) > 0

\* C5: the global position of every Detection is its position in the
\* .magwcs file plus row index x (image height / rows) along y and column
\* index x (image width / cols) along x.
C5_GlobalPosition ==
    \A k \in 1..Len(detected_sources_tot) :
       LET d     == detected_sources_tot[k]
           local == magwcs[d.row[1]][d.row[2]]
           parts == Split(image_table[d.row[1]].quadrant, "_")
           rowix == IF Nb_cuts = <<1, 1>> THEN 0 ELSE StrToInt(parts[2])
           colix == IF Nb_cuts = <<1, 1>> THEN 0 ELSE StrToInt(parts[3])
       IN  /\ Nb_cuts[1] * (d.Ypos - local.Ypos) = rowix * orig_header["NAXIS2"]
           /\ Nb_cuts[2] * (d.Xpos - local.Xpos) = colix * orig_header["NAXIS1"]

\* C8: when a file of the image table has none of CDELT1, _DELT1, CD1_1 in
\* its header, no catalog query is issued and no output is written.
NoScaleKey(header) == DOMAIN header \cap {"CDELT1", "_DELT1", "CD1_1"} = {}
C8_MissingScaleIsFatal ==
    (\E f \in 1..Len(headers) : NoScaleKey(headers[f])) =>
        xmatchLog = <<>> /\ written = <<>>

\* C9: the candidates go to <field>.oc and the companion to <field>_oc_RADEC,
\* <field> being the stem of the original image in the result folder.
FieldName == resultDir(filename) \o Filename2(filename)
C9_OutputNames ==
    pc = "done" =>
       /\ written[1].name = FieldName \o <<".", "o", "c">>
       /\ written[2].name =
             FieldName \o <<"_", "o", "c", "_", "R", "A", "D", "E", "C">>

\* C12: a filtering pass keeps exactly the rows whose idx does not occur in
\* the match result, each once and in their previous order, however many
\* catalog entries matched one idx.
C12_PassKeepsUnmatched ==
    [][pc = "filter" =>
          LET kept == {k \in 1..Len(candidates) :
                          crossmatch[candidates[k].idx] = 0}
              from(m) == CHOOSE k \in 1..Len(candidates) :
                            candidates[k].row = candidates'[m].row
          IN  /\ Len(candidates') = Cardinality(kept)
              /\ Detections(candidates') =
                    {[candidates[k] EXCEPT !.idx = 0] : k \in kept}
              /\ \A m \in 1..(Len(candidates') - 1) : from(m) < from(m + 1)]_vars

\* of three candidates the second was matched twice and the third once,
\* the first not at all, and one candidate is left
C12_Witness ==
    /\ pc \in {"loop", "write"}
    /\ Len(xmatchLog) = 1
    /\ Len(xmatchLog[1].table) = 3
    /\ xmatchLog[1].reply[0] = 0
    /\ xmatchLog[1].reply[1] = 2
    /\ xmatchLog[1].reply[2] = 1
    /\ Len(candidates) = 1

\* C13: after the position correction every Detection of a cut image has
\* its position in the quadrant, as read from the .magwcs file, in
\* Xpos_quad/Ypos_quad, and Xpos/Ypos differ from them by the offset of its
\* quadrant.
C13_BothPositions ==
    Cut =>
       \A k \in 1..Len(detected_sources_tot) :
          LET d     == detected_sources_tot[k]
              local == magwcs[d.row[1]][d.row[2]]
              ij    == QuadIndex(d.quadrant, Nb_cuts)
          IN  /\ d.Xpos_quad = local.Xpos
              /\ d.Ypos_quad = local.Ypos
              /\ d.Xpos - d.Xpos_quad = XOffset(orig_header, Nb_cuts, ij[2])
              /\ d.Ypos - d.Ypos_quad = YOffset(orig_header, Nb_cuts, ij[1])

\* C14: every catalog query uses the same tolerance, radius x pixel scale x
\* 3600, the pixel scale being the absolute value of the first of CDELT1,
\* _DELT1, CD1_1 that the image header has (the header of the last file of
\* the table that has one of them).
FirstScaleKey(header) ==
    CHOOSE key \in {"CDELT1", "_DELT1", "CD1_1"} :
       /\ key \in DOMAIN header
       /\ key = "_DELT1" => "CDELT1" \notin DOMAIN header
       /\ key = "CD1_1" => DOMAIN header \cap {"CDELT1", "_DELT1"} = {}
-----------------------------------------------------------------------------
(* Properties of astrometric_calib *)

\* C6: the returned image table has one row per cell of the grid and as
\* many distinct quadrant labels.
C6_OneRowPerCell ==
    pc = "returned" =>
       /\ Len(image_table) = Nb_cuts[1] * Nb_cuts[2]
       /\ Cardinality({image_table[k].quadrant : k \in 1..Len(image_table)})
             = Nb_cuts[1] * Nb_cuts[2]

\* C7: scamp is called at most itermax times for a file, and never after a
\* call that reported a residual below the accuracy asked for.
C7_ScampCalls ==
    /\ Len(scampLog) <= itermax
    /\ \A k \in 1..(Len(scampLog) - 1) : scampLog[k] >= accuracy

\* C10: the table of a cut image lists the cells row by row, cell (i, j) at
\* position i*cols + j with file suffix _Q<n> and label Q<n>_<i>_<j>,
\* n = i*cols + j + 1; an image that is not cut has the single label None.
C10_RowMajor ==
    pc = "returned" =>
       IF Cut
       THEN /\ Len(image_table) = Nb_cuts[1] * Nb_cuts[2]
            /\ \A i \in 0..(Nb_cuts[1] - 1) : \A j \in 0..(Nb_cuts[2] - 1) :
                  LET n == i * Nb_cuts[2] + j + 1
                  IN  /\ image_table[n].filenames =
                             resultDir(filename) \o Filename2(filename)
                                 \o <<"_", "Q">> \o IntToStr(n) \o Extension(filename)
                      /\ image_table[n].quadrant =
                             <<"Q">> \o IntToStr(n) \o <<"_">> \o IntToStr(i)
                                 \o <<"_">> \o IntToStr(j)
       ELSE /\ Len(image_table) = 1
            /\ image_table[1].quadrant = NoneLabel


\* ---------------------------------------------------------------------
\* convert_xy_radec and sextractor in the pipeline
\* ---------------------------------------------------------------------

HasWcs(header) == "CRVAL1" \in DOMAIN header

\* C11: a file whose header has no world-coordinate mapping gets no
\* sky-position catalog: convert_xy_radec writes no .magwcs for it and
\* stops with an error at that file instead of going past it
C11_NoCatalogWithoutWcs ==
    \A f \in 1..Len(headers) :
        ~HasWcs(headers[f]) => f \notin magwcsWritten /\ nconv < f

FailedCalls == {k \in 1..Len(sexLog) : sexLog[k].code # 0}

\* the detector is called once on every file of the image table, in the
\* order of the table, whatever the earlier calls returned
DetectorCalledInOrder ==
    /\ \A k \in 1..Len(sexLog) : sexLog[k].file = image_table[k].filenames
    /\ pc # "sex" => Len(sexLog) = Len(image_table)

\* C15: when the detector fails on one file of the image table, it is
\* still called once on every other file in the order of the table, the
\* failed file contributes an empty catalog of detections, and the
\* projection and the later stages are not stopped by an error
C15_DetectorFailureTolerated ==
    Cardinality(FailedCalls) = 1 =>
        /\ DetectorCalledInOrder
        /\ \A f \in FailedCalls : f \in magwcsWritten => magwcs[f] = <<>>
        /\ pc # "error"

====
